---- MODULE Spec2Model ----
(***************************************************************************)
(* A model of filter_ips.py: the streaming parse-filter-aggregate pass     *)
(* (fetch_and_filter), the artifact writer (write_output) and the driver   *)
(* (__main__) that runs the pass once per configured ASN set.              *)
(*                                                                         *)
(* Byte strings and Python str values are tuples of code points            *)
(* (<<49, 48>> is "10").  The model's alphabet is ASCII plus the byte 255, *)
(* which can never occur in UTF-8.                                         *)
(***************************************************************************)
EXTENDS Integers, Sequences, FiniteSets, TLC

VARIABLES
  pc,               \* position of the process: idle, fetch, iter, returned, exit0, exit1
  stage,            \* which ASN set __main__ is processing: "primary" / "secondary"
  processed_lines,  \* fetch_and_filter's counter of non-empty lines
  filtered_cidrs,   \* fetch_and_filter's set of retained prefixes
  result,           \* the sorted list fetch_and_filter returned
  files,            \* the file system: file name -> [exists, lines]
  warnings,         \* number of warnings printed to stderr in the current pass
  seen,             \* history: the set of raw lines the running pass has consumed
  exit_code,        \* the exit status, -1 while the process runs
  failure,          \* history: the fatal error that ended the process (kind "none" if none)
                    \* and the prefixes accumulated and not yet returned when it struck
  run,              \* number of invocations of the script so far
  files0,           \* history: the files as the current invocation found them
  wrote,            \* history: per set, whether its pass returned (an empty list or not), the
                    \* retained lines of the feed it consumed, whether write_output wrote its
                    \* artifact, and the lines written
  prev              \* history: wrote, of the previous invocation

vars == <<pc, stage, processed_lines, filtered_cidrs, result, files, warnings,
          seen, exit_code, failure, run, files0, wrote, prev>>

-----------------------------------------------------------------------------
(* Configuration, lines 7-11 *)

TARGET_ASNS_PRIMARY == {4134, 56040}

TARGET_ASNS_SECONDARY ==
  {4134, 9808, 4837, 4812, 24400, 17621, 4808, 56046, 56048, 56040, 17816,
   17622, 56041, 24444, 56044, 24445, 56047, 24547, 38019}

\* 'https://bgp.tools/table.txt'
BGP_TABLE_URL ==
  <<104, 116, 116, 112, 115, 58, 47, 47, 98, 103, 112, 46, 116, 111, 111, 108, 115, 47, 116, 97, 98, 108, 101, 46, 116, 120, 116>>

OUTPUT_FILENAME_PRIMARY == "cn_as4134_as56040_ipv4.txt"

OUTPUT_FILENAME_SECONDARY == "cn_other_asns_ipv4.txt"

-----------------------------------------------------------------------------
(* Python's str and bytes operations used by the script *)

\* c in s
Contains(s, c) == \E i \in 1..Len(s) : s[i] = c

\* str.isspace() on one ASCII character: \t \n \v \f \r, FS GS RS US, space
IsSpace(c) == c \in (9..13) \cup (28..32)

IsDigit(c) == c \in 48..57

\* s[i:j+1]
Slice(s, i, j) == SubSeq(s, i, j)

\* str.strip(): drop leading and trailing whitespace
Strip(s) ==
  LET keep == {i \in 1..Len(s) : ~IsSpace(s[i])}
  IN  IF keep = {} THEN <<>>
      ELSE LET lo == CHOOSE i \in keep : \A j \in keep : i <= j
               hi == CHOOSE i \in keep : \A j \in keep : j <= i
           IN  Slice(s, lo, hi)

\* str.split() with no separator: the maximal runs of non-whitespace, in order
RECURSIVE Split(_)
Split(s) ==
  IF s = <<>> THEN <<>>
  ELSE IF IsSpace(s[1]) THEN Split(Tail(s))
  ELSE LET stops == {i \in 1..Len(s) : IsSpace(s[i])}
           end   == IF stops = {} THEN Len(s) + 1
                    ELSE CHOOSE i \in stops : \A j \in stops : i <= j
       IN  <<Slice(s, 1, end - 1)>> \o Split(Slice(s, end, Len(s)))

\* str.startswith(p)
StartsWith(s, p) == Len(s) >= Len(p) /\ Slice(s, 1, Len(p)) = p

\* bytes.decode('utf-8') succeeds: every byte of the model's alphabet below
\* 128 is a one-byte character, and 255 is never valid
DecodeOk(b) == \A i \in 1..Len(b) : b[i] < 128

\* sys.get_int_max_str_digits(), the interpreter's default: int() raises
\* ValueError on a literal with more digits than this
INT_MAX_STR_DIGITS == 4300

\* The int a well-formed literal denotes. Python's ints have no upper bound,
\* so the value is kept as its decimal numeral, the string str(n): the
\* digits without underscores and leading zeros, "0" for zero, "-" before
\* a negative.
Numeral(negative, body) ==
  LET ds == SelectSeq(body, IsDigit)
      nz == {i \in 1..Len(ds) : ds[i] # 48}
  IN  IF nz = {} THEN <<48>>
      ELSE LET first == CHOOSE i \in nz : \A j \in nz : i <= j
           IN  (IF negative THEN <<45>> ELSE <<>>) \o SubSeq(ds, first, Len(ds))

\* int(s) for a token without whitespace: an optional sign, then digits that
\* single underscores may separate, at most INT_MAX_STR_DIGITS digits in
\* all (sign and underscores not counted, leading zeros counted); anything
\* else raises ValueError (ok = FALSE). val is the int, as its numeral.
IntParse(s) ==
  LET signed == s # <<>> /\ s[1] \in {43, 45}
      body   == IF signed THEN Tail(s) ELSE s
      wellFormed ==
        /\ body # <<>>
        /\ IsDigit(body[1])
        /\ IsDigit(body[Len(body)])
        /\ \A i \in 1..Len(body) : IsDigit(body[i]) \/ body[i] = 95
        /\ \A i \in 1..(Len(body) - 1) : ~(body[i] = 95 /\ body[i + 1] = 95)
        /\ Len(SelectSeq(body, IsDigit)) <= INT_MAX_STR_DIGITS
  IN  IF ~wellFormed THEN [ok |-> FALSE, val |-> <<>>]
      ELSE [ok |-> TRUE, val |-> Numeral(signed /\ s[1] = 45, body)]

\* a < b for str: code point by code point, a proper prefix being smaller
RECURSIVE StrLess(_, _)
StrLess(a, b) ==
  IF b = <<>> THEN FALSE
  ELSE IF a = <<>> THEN TRUE
  ELSE IF a[1] # b[1] THEN a[1] < b[1]
  ELSE StrLess(Tail(a), Tail(b))

\* a list of S in descending order: what a missing or reversed sort may give
RECURSIVE StrsDescending(_)
StrsDescending(S) ==
  IF S = {} THEN <<>>
  ELSE LET m == CHOOSE x \in S : \A y \in S \ {x} : StrLess(y, x)
       IN  <<m>> \o StrsDescending(S \ {m})

\* sorted(list(S)) for a set of str
RECURSIVE SortedStrs(_)
SortedStrs(S) ==
  IF S = {} THEN <<>>
  ELSE LET m == CHOOSE x \in S : \A y \in S \ {x} : StrLess(x, y)
       IN  <<m>> \o SortedStrs(S \ {m})

\* the ASNs in descending order: what a missing or reversed sort may give
RECURSIVE IntsDescending(_)
IntsDescending(S) ==
  IF S = {} THEN <<>>
  ELSE LET m == CHOOSE x \in S : \A y \in S : y <= x
       IN  <<m>> \o IntsDescending(S \ {m})

\* sorted(list(S)) for a set of int
RECURSIVE SortedInts(_)
SortedInts(S) ==
  IF S = {} THEN <<>>
  ELSE LET m == CHOOSE x \in S : \A y \in S : x <= y
       IN  <<m>> \o SortedInts(S \ {m})

\* str(n) for n >= 0
RECURSIVE Str(_)
Str(n) ==
  IF n < 10 THEN <<48 + n>>
  ELSE Str(n \div 10) \o <<48 + (n % 10)>>

\* sep.join(parts)
RECURSIVE Join(_, _)
Join(sep, parts) ==
  IF parts = <<>> THEN <<>>
  ELSE IF Len(parts) = 1 THEN parts[1]
  ELSE parts[1] \o sep \o Join(sep, Tail(parts))

\* s.replace(old, new), old non-empty: leftmost non-overlapping occurrences
RECURSIVE Replace(_, _, _)
Replace(s, old, new) ==
  IF Len(s) < Len(old) THEN s
  ELSE IF StartsWith(s, old)
       THEN new \o Replace(Slice(s, Len(old) + 1, Len(s)), old, new)
  ELSE <<s[1]>> \o Replace(Tail(s), old, new)

\* n in S, for an int n kept as its numeral and a set S of small ints
IntIn(n, S) == \E a \in S : Str(a) = n

\* [f(x) for x in seq]
MapStr(seq) == [i \in 1..Len(seq) |-> Str(seq[i])]

-----------------------------------------------------------------------------
(* is_ipv4_cidr, lines 19-21 *)

\* the check without its colon test
is_ipv4_cidr_dot_only(cidr_string) == Contains(cidr_string, 46)

is_ipv4_cidr(cidr_string) ==
  Contains(cidr_string, 46) /\ ~Contains(cidr_string, 58)

-----------------------------------------------------------------------------
(* The feed: raw lines as response.iter_lines() yields them *)

\* '10.0.0.0/8 4134'
L_ten ==
  <<49, 48, 46, 48, 46, 48, 46, 48, 47, 56, 32, 52, 49, 51, 52>>
\* '100.0.0.0/8 +4134'
L_hundred ==
  <<49, 48, 48, 46, 48, 46, 48, 46, 48, 47, 56, 32, 43, 52, 49, 51, 52>>
\* ' 2.0.0.0/8\t56040 x'
L_two ==
  <<32, 50, 46, 48, 46, 48, 46, 48, 47, 56, 9, 53, 54, 48, 52, 48, 32, 120>>
\* '10.0.0.0/8 9808'
L_ten_other ==
  <<49, 48, 46, 48, 46, 48, 46, 48, 47, 56, 32, 57, 56, 48, 56>>
\* '::ffff:1.2.3.4/128 4134'
L_v6_mapped ==
  <<58, 58, 102, 102, 102, 102, 58, 49, 46, 50, 46, 51, 46, 52, 47, 49, 50, 56, 32, 52, 49, 51, 52>>
\* 'badline 4134'
L_nodot ==
  <<98, 97, 100, 108, 105, 110, 101, 32, 52, 49, 51, 52>>
\* '4.5.6.0/24 9999'
L_foreign ==
  <<52, 46, 53, 46, 54, 46, 48, 47, 50, 52, 32, 57, 57, 57, 57>>
\* '4.5.6.0/24 4294971430': the ASN is 4134 + 2**32
L_wide ==
  <<52, 46, 53, 46, 54, 46, 48, 47, 50, 52, 32, 52, 50, 57, 52, 57, 55, 49, 52, 51, 48>>
\* 'badline'
L_short ==
  <<98, 97, 100, 108, 105, 110, 101>>
\* '1.2.3.0/24 AS4134'
L_badasn ==
  <<49, 46, 50, 46, 51, 46, 48, 47, 50, 52, 32, 65, 83, 52, 49, 51, 52>>
\* '#1.2.3.0/24 4134'
L_comment ==
  <<35, 49, 46, 50, 46, 51, 46, 48, 47, 50, 52, 32, 52, 49, 51, 52>>
\* b'1.2.3.0/24 4134 \xff'
L_undecodable ==
  <<49, 46, 50, 46, 51, 46, 48, 47, 50, 52, 32, 52, 49, 51, 52, 32, 255>>
\* '  '
L_blank ==
  <<32, 32>>
\* b'' (iter_lines yields it for an empty line of the body)
L_empty == <<>>

\* the lines a feed of the full model is made of
Lines ==
  {L_ten, L_hundred, L_two, L_ten_other, L_v6_mapped, L_nodot,
   L_foreign, L_wide, L_short, L_badasn, L_comment, L_undecodable, L_blank, L_empty}

\* the lines of the two-invocation model
RerunLines == {L_ten, L_hundred, L_ten_other, L_short}

\* the lines of the warning model: nothing but malformed lines
WarnLines == {L_short, L_undecodable}

\* longest feed (in non-empty lines) of the full model
MaxLines == 3

\* longest feed of the two-invocation model
MaxRerunLines == 2

\* longest feed of the warning model
MaxWarnLines == 101

\* invocations of the script in the two-invocation model
MaxRuns == 2

\* datetime.now(timezone.utc).isoformat() at two instants (the second with
\* microseconds)
\* '2026-10-31T00:00:00+00:00'
TS_a ==
  <<50, 48, 50, 54, 45, 49, 48, 45, 51, 49, 84, 48, 48, 58, 48, 48, 58, 48, 48, 43, 48, 48, 58, 48, 48>>
\* '2026-10-31T00:00:00.000001+00:00'
TS_b ==
  <<50, 48, 50, 54, 45, 49, 48, 45, 51, 49, 84, 48, 48, 58, 48, 48, 58, 48, 48, 46, 48, 48, 48, 48, 48, 49, 43, 48, 48, 58, 48, 48>>
Clock == {TS_a, TS_b}

-----------------------------------------------------------------------------
(* fetch_and_filter's loop body, lines 40-75 *)

\* the thresholds of lines 57 and 66
WARN_LINE_LIMIT == 100
WARN_CIDR_LIMIT == 10

\* the condition under which lines 57 and 66 print their warning
WarnsMalformed(n, fc) == n < WARN_LINE_LIMIT /\ Cardinality(fc) < WARN_CIDR_LIMIT

\* set.add
SetAdd(s, x) == s \cup {x}

\* What lines 40-54 make of line_bytes alone: "empty" (line 40 is false),
\* "undecodable" (line 44 raises), "skip" (blank or comment, lines 46-47),
\* "short" (fewer than two tokens), "badasn" (line 54 raises ValueError), or
\* a "record" with its first token and its number (as IntParse gives it).
Parse(line_bytes) ==
  LET out(k, c, a) == [kind |-> k, cidr |-> c, asn |-> a] IN
  IF line_bytes = <<>> THEN out("empty", <<>>, <<>>)
  ELSE IF ~DecodeOk(line_bytes) THEN out("undecodable", <<>>, <<>>)
  ELSE
    LET line == Strip(line_bytes) IN
    IF line = <<>> \/ StartsWith(line, <<35>>) THEN out("skip", <<>>, <<>>)
    ELSE
      LET parts == Split(line) IN
      IF Len(parts) >= 2 THEN
        LET asn == IntParse(parts[2])
        IN  IF asn.ok THEN out("record", parts[1], asn.val)
            ELSE out("badasn", parts[1], <<>>)
      ELSE out("short", <<>>, <<>>)

\* Parse, tabulated once over the lines the feeds are made of
ParseTable == [l \in Lines \cup RerunLines \cup WarnLines |-> Parse(l)]

ParseOf(line_bytes) ==
  IF line_bytes \in DOMAIN ParseTable THEN ParseTable[line_bytes] ELSE Parse(line_bytes)

\* without the handler of line 73 the exception leaves the loop
NoExceptHandler(n, fc) ==
  [processed_lines |-> n, filtered_cidrs |-> fc, warned |-> 0, raised |-> TRUE]

\* the handler of lines 73-75: a warning, and the loop goes on
ExceptHandler(n, fc) ==
  [processed_lines |-> n, filtered_cidrs |-> fc, warned |-> 1, raised |-> FALSE]

\* One iteration of the loop of line 39 on line_bytes, with the counter and
\* the set as they are before it: the counter and the set after it, the
\* number of warnings it printed, and whether an exception left the try of
\* line 42 uncaught.
ProcessLine(line_bytes, target_asns, n0, fc) ==
  LET p == ParseOf(line_bytes)
      n == n0 + 1
      same(m, w) == [processed_lines |-> m, filtered_cidrs |-> fc,
                     warned |-> w, raised |-> FALSE]
  IN
  CASE p.kind = "empty"       -> same(n0, 0)                   \* line 40
    [] p.kind = "undecodable" -> ExceptHandler(n, fc)          \* lines 44, 73-75
    [] p.kind = "skip"        -> same(n, 0)                    \* lines 46-47
    [] p.kind = "badasn"      ->                               \* lines 55-59
         same(n, IF WarnsMalformed(n, fc) THEN 1 ELSE 0)
    [] p.kind = "short"       ->                               \* lines 64-67
         same(n, IF WarnsMalformed(n, fc) THEN 1 ELSE 0)
    [] p.kind = "record"      ->                               \* lines 62-63
         IF IntIn(p.asn, target_asns) /\ is_ipv4_cidr(p.cidr)
           THEN [processed_lines |-> n, filtered_cidrs |-> SetAdd(fc, p.cidr),
                 warned |-> 0, raised |-> FALSE]
           ELSE same(n, 0)

\* a handler that does not exit: the function goes on to its return
ReturnPartial(res, fc) ==
  [pc |-> "returned", exit_code |-> -1, result |-> SortedStrs(fc)]

\* the handler of lines 80-87: sys.exit(1), so nothing is returned
RequestExceptionHandler(res, fc) ==
  [pc |-> "exited", exit_code |-> 1, result |-> res]

-----------------------------------------------------------------------------
(* write_output, lines 92-108 *)

\* '# IPv4 CIDRs for ASNs '
HDR_ASNS ==
  <<35, 32, 73, 80, 118, 52, 32, 67, 73, 68, 82, 115, 32, 102, 111, 114, 32, 65, 83, 78, 115, 32>>
\* ', '
COMMA_SPACE ==
  <<44, 32>>
\* '# Data sourced from bgp.tools ('
HDR_SOURCE_1 ==
  <<35, 32, 68, 97, 116, 97, 32, 115, 111, 117, 114, 99, 101, 100, 32, 102, 114, 111, 109, 32, 98, 103, 112, 46, 116, 111, 111, 108, 115, 32, 40>>
\* ')'
HDR_SOURCE_2 ==
  <<41>>
\* '# Last updated: '
HDR_UPDATED ==
  <<35, 32, 76, 97, 115, 116, 32, 117, 112, 100, 97, 116, 101, 100, 58, 32>>
\* '# WARNING: ASN Geo-location is not always precise. This list is based on ASN registration only.'
HDR_WARNING ==
  <<35, 32, 87, 65, 82, 78, 73, 78, 71, 58, 32, 65, 83, 78, 32, 71, 101, 111, 45, 108, 111, 99, 97, 116, 105, 111, 110, 32, 105, 115, 32, 110, 111, 116, 32, 97, 108, 119, 97, 121, 115, 32, 112, 114, 101, 99, 105, 115, 101, 46, 32, 84, 104, 105, 115, 32, 108, 105, 115, 116, 32, 105, 115, 32, 98, 97, 115, 101, 100, 32, 111, 110, 32, 65, 83, 78, 32, 114, 101, 103, 105, 115, 116, 114, 97, 116, 105, 111, 110, 32, 111, 110, 108, 121, 46>>
\* '#-----------------------------------------------------------'
HDR_SEPARATOR ==
  <<35, 45, 45, 45, 45, 45, 45, 45, 45, 45, 45, 45, 45, 45, 45, 45, 45, 45, 45, 45, 45, 45, 45, 45, 45, 45, 45, 45, 45, 45, 45, 45, 45, 45, 45, 45, 45, 45, 45, 45, 45, 45, 45, 45, 45, 45, 45, 45, 45, 45, 45, 45, 45, 45, 45, 45, 45, 45, 45, 45>>
\* '+00:00'
UTC_OFFSET ==
  <<43, 48, 48, 58, 48, 48>>
\* 'Z'
ZULU ==
  <<90>>

\* A file is the lines it holds, each ended by "\n", and tail, the
\* characters after the last "\n" (a line that was not finished).

\* open(filename, 'a'): what the file held stays
OpenForAppend(old) == [exists |-> TRUE, lines |-> old.lines, tail |-> old.tail]

\* open(filename, 'w'), line 96: the file exists and is empty
OpenForWrite(old) == [exists |-> TRUE, lines |-> <<>>, tail |-> <<>>]

\* line 97 for each configured set
AsnHeader ==
  [t \in {TARGET_ASNS_PRIMARY, TARGET_ASNS_SECONDARY} |->
     HDR_ASNS \o Join(COMMA_SPACE, MapStr(SortedInts(t)))]

\* line 100 at each instant of the clock
Timestamp == [now \in Clock |-> HDR_UPDATED \o Replace(now, UTC_OFFSET, ZULU)]

\* the lines the f.write calls of lines 97-104 append, each ended by "\n"
Written(cidrs, target_asns, now) ==
  << AsnHeader[target_asns],
     HDR_SOURCE_1 \o BGP_TABLE_URL \o HDR_SOURCE_2,
     Timestamp[now],
     HDR_WARNING,
     HDR_SEPARATOR >> \o cidrs

\* the number of bytes of written: every line and its "\n"
RECURSIVE Bytes(_)
Bytes(written) ==
  IF written = <<>> THEN 0 ELSE Len(written[1]) + 1 + Bytes(Tail(written))

\* how many of the first lines of written, each with its "\n", fit in n bytes
RECURSIVE WholeLines(_, _)
WholeLines(written, n) ==
  IF written = <<>> \/ n < Len(written[1]) + 1 THEN 0
  ELSE 1 + WholeLines(Tail(written), n - (Len(written[1]) + 1))

\* The open file f after the first n bytes of written reached it. The
\* f.write calls fill a buffer, which goes to the file when it is full and
\* when the file is closed, so what has reached the file is a run of bytes
\* that may end inside a line. n = Bytes(written) is the whole of it.
FileAfter(f, written, n) ==
  LET k    == WholeLines(written, n)
      rest == n - Bytes(SubSeq(written, 1, k))
      new  == SubSeq(written, 1, k)
      frag == IF k < Len(written) THEN SubSeq(written[k + 1], 1, rest) ELSE <<>>
  IN  IF k = 0 THEN [f EXCEPT !.tail = @ \o frag]
      ELSE [f EXCEPT !.lines = @ \o <<f.tail \o new[1]>> \o Tail(new),
                     !.tail = frag]

-----------------------------------------------------------------------------
(* __main__, lines 110-129 *)

Stages == {"primary", "secondary"}

TargetOf(s) == IF s = "primary" THEN TARGET_ASNS_PRIMARY ELSE TARGET_ASNS_SECONDARY

FileOf(s) == IF s = "primary" THEN OUTPUT_FILENAME_PRIMARY ELSE OUTPUT_FILENAME_SECONDARY

FileNames == {OUTPUT_FILENAME_PRIMARY, OUTPUT_FILENAME_SECONDARY}

\* a driver that writes whatever was returned
AlwaysWrite(cidrs) == TRUE

\* "if filtered_data_primary:" (lines 116, 124): a list is true iff non-empty
ShouldWrite(cidrs) == cidrs # <<>>

\* a driver that reports an invocation that wrote nothing as a failure
ExitOneIfNothingWritten(anyWritten) == IF anyWritten THEN 0 ELSE 1

\* the exit status when the script runs off its end (line 129)
ExitAtEnd(anyWritten) == 0

\* a file that does not exist, and an artifact left by an earlier invocation
Absent == [exists |-> FALSE, lines |-> <<>>, tail |-> <<>>]
\* '203.0.113.0/24'
OLD_line ==
  <<50, 48, 51, 46, 48, 46, 49, 49, 51, 46, 48, 47, 50, 52>>
OldFile == [exists |-> TRUE, lines |-> <<HDR_SEPARATOR, OLD_line>>, tail |-> <<>>]

NoFailure == [kind |-> "none", pending |-> {}]

NoWrite == [ret |-> "none", feed |-> {}, done |-> FALSE, lines |-> <<>>]

\* the lines of a feed that, each on its own, make the loop body retain a prefix
Retained(feed, target_asns) ==
  {l \in feed : ProcessLine(l, target_asns, 0, {}).filtered_cidrs # {}}

Init ==
  /\ pc = "idle"
  /\ exit_code = -1
  /\ stage = "primary"
  /\ processed_lines = 0
  /\ filtered_cidrs = {}
  /\ result = <<>>
  /\ files \in [FileNames -> {Absent, OldFile}]
  /\ files0 = files
  /\ warnings = 0
  /\ seen = {}
  /\ failure = NoFailure
  /\ run = 0
  /\ wrote = [s \in Stages |-> NoWrite]
  /\ prev = [s \in Stages |-> NoWrite]

\* the script is started (line 110); files0 remembers the files it finds
Start(maxRuns) ==
  /\ pc \in {"idle", "exited"}
  /\ run < maxRuns
  /\ run' = run + 1
  /\ pc' = "fetch"
  /\ exit_code' = -1
  /\ stage' = "primary"
  /\ processed_lines' = 0
  /\ filtered_cidrs' = {}
  /\ result' = <<>>
  /\ warnings' = 0
  /\ seen' = {}
  /\ failure' = NoFailure
  /\ files0' = files
  /\ prev' = wrote
  /\ wrote' = [s \in Stages |-> NoWrite]
  /\ UNCHANGED files

\* the process is gone, and its locals with it
LocalsGone ==
  /\ processed_lines' = 0
  /\ filtered_cidrs' = {}
  /\ warnings' = 0
  /\ seen' = {}

\* fetch_and_filter, lines 25-37: the request succeeds
FetchOK ==
  /\ pc = "fetch"
  /\ pc' = "iter"
  /\ filtered_cidrs' = {}
  /\ processed_lines' = 0
  /\ warnings' = 0
  /\ seen' = {}
  /\ UNCHANGED <<exit_code, stage, result, files, files0, failure, run, wrote, prev>>

\* lines 32-33 raise a RequestException (connection error, bad status)
FetchFail ==
  LET h == RequestExceptionHandler(result, {}) IN
  /\ pc = "fetch"
  /\ pc' = h.pc
  /\ exit_code' = h.exit_code
  /\ result' = h.result
  /\ failure' = [kind |-> "fetch", pending |-> {}]
  /\ IF h.pc = "exited" THEN LocalsGone
     ELSE UNCHANGED <<processed_lines, filtered_cidrs, warnings, seen>>
  /\ UNCHANGED <<stage, files, files0, run, wrote, prev>>

\* iter_lines yields line_bytes and the loop body runs on it
ReadLine(line_bytes, maxLines) ==
  LET r == ProcessLine(line_bytes, TargetOf(stage), processed_lines, filtered_cidrs) IN
  /\ pc = "iter"
  /\ processed_lines < maxLines
  /\ IF r.raised
       THEN /\ pc' = "exited"
            /\ exit_code' = 1
            /\ failure' = [kind |-> "line", pending |-> filtered_cidrs]
            /\ LocalsGone
       ELSE /\ processed_lines' = r.processed_lines
            /\ filtered_cidrs' = r.filtered_cidrs
            /\ warnings' = warnings + r.warned
            /\ seen' = seen \cup {line_bytes}
            /\ UNCHANGED <<pc, exit_code, failure>>
  /\ UNCHANGED <<stage, result, files, files0, run, wrote, prev>>

\* iter_lines raises a RequestException in mid-stream
StreamError ==
  LET h == RequestExceptionHandler(result, filtered_cidrs) IN
  /\ pc = "iter"
  /\ pc' = h.pc
  /\ exit_code' = h.exit_code
  /\ result' = h.result
  /\ failure' = [kind |-> "stream", pending |-> filtered_cidrs]
  /\ IF h.pc = "exited" THEN LocalsGone
     ELSE UNCHANGED <<processed_lines, filtered_cidrs, warnings, seen>>
  /\ UNCHANGED <<stage, files, files0, run, wrote, prev>>

\* end of stream: lines 77-78 and the return of line 90, after which the
\* locals of fetch_and_filter are gone
EndOfStream ==
  /\ pc = "iter"
  /\ pc' = "returned"
  /\ result' = SortedStrs(filtered_cidrs)
  /\ processed_lines' = 0
  /\ filtered_cidrs' = {}
  /\ warnings' = 0
  /\ wrote' = [wrote EXCEPT ![stage].feed = Retained(seen, TargetOf(stage)),
                            ![stage].ret = IF filtered_cidrs = {} THEN "empty" ELSE "nonempty"]
  /\ UNCHANGED <<exit_code, stage, files, files0, seen, failure, run, prev>>

\* __main__ goes on to the secondary set, or runs off its end; the locals of
\* the call of fetch_and_filter that returned are gone
Advance(written) ==
  /\ result' = <<>>
  /\ seen' = {}
  /\ UNCHANGED <<processed_lines, filtered_cidrs, warnings>>
  /\ IF stage = "primary"
       THEN /\ stage' = "secondary"
            /\ pc' = "fetch"
            /\ exit_code' = exit_code
       ELSE /\ stage' = stage
            /\ pc' = "exited"
            /\ exit_code' = ExitAtEnd(written \/ \E s \in Stages : wrote[s].done)

\* "if filtered_data:" holds and write_output is called (lines 116-117,
\* 124-125); its open of line 96 succeeds and leaves the file empty
OpenOutput ==
  /\ pc = "returned"
  /\ ShouldWrite(result)
  /\ pc' = "writing"
  /\ files' = [files EXCEPT ![FileOf(stage)] = OpenForWrite(@)]
  /\ seen' = {}
  /\ UNCHANGED <<exit_code, stage, processed_lines, filtered_cidrs, result,
                 warnings, files0, failure, run, wrote, prev>>

\* the open of line 96 raises an IOError: the file is as it was, and lines
\* 106-108 end the process
OpenFail ==
  /\ pc = "returned"
  /\ ShouldWrite(result)
  /\ pc' = "exited"
  /\ exit_code' = 1
  /\ failure' = [kind |-> "write", pending |-> {}]
  /\ LocalsGone
  /\ result' = <<>>
  /\ UNCHANGED <<stage, files, files0, run, wrote, prev>>

\* lines 97-104 and the close of the file succeed; write_output returns
WriteOutput(now) ==
  LET w == Written(result, TargetOf(stage), now)
      f == FileAfter(files[FileOf(stage)], w, Bytes(w))
  IN
  /\ pc = "writing"
  /\ files' = [files EXCEPT ![FileOf(stage)] = f]
  /\ wrote' = [wrote EXCEPT ![stage].done = TRUE, ![stage].lines = f.lines]
  /\ Advance(TRUE)
  /\ UNCHANGED <<files0, failure, run, prev>>

\* a write of lines 97-104, or the close, raises an IOError (disk full, file
\* size limit, I/O error) when n bytes have reached the file; lines 106-108
\* end the process
WriteFail(now) ==
  LET w == Written(result, TargetOf(stage), now) IN
  /\ pc = "writing"
  /\ \E n \in 0..Bytes(w) :
       files' = [files EXCEPT ![FileOf(stage)] = FileAfter(@, w, n)]
  /\ pc' = "exited"
  /\ exit_code' = 1
  /\ failure' = [kind |-> "write", pending |-> {}]
  /\ LocalsGone
  /\ result' = <<>>
  /\ UNCHANGED <<stage, files0, run, wrote, prev>>

\* the else branches of lines 118-119 and 126-127: nothing is written
SkipWrite ==
  /\ pc = "returned"
  /\ ~ShouldWrite(result)
  /\ Advance(FALSE)
  /\ UNCHANGED <<files, files0, failure, run, wrote, prev>>

-----------------------------------------------------------------------------
(* Specifications *)

\* one invocation of the script on feeds of any lines of Lines
StartOnce == Start(1)
ReadAnyLine == \E l \in Lines : ReadLine(l, MaxLines)
WriteNow == \E now \in Clock : WriteOutput(now)
WriteFailNow == \E now \in Clock : WriteFail(now)

Next ==
  \/ StartOnce
  \/ FetchOK
  \/ FetchFail
  \/ ReadAnyLine
  \/ StreamError
  \/ EndOfStream
  \/ OpenOutput
  \/ OpenFail
  \/ WriteNow
  \/ WriteFailNow
  \/ SkipWrite

Spec == Init /\ [][Next]_vars

\* invocations of the script, one after the other, on feeds of RerunLines,
\* none of them struck by a transport or write error
StartAgain == Start(MaxRuns)
ReadRerunLine == \E l \in RerunLines : ReadLine(l, MaxRerunLines)

NextRerun ==
  \/ StartAgain
  \/ FetchOK
  \/ ReadRerunLine
  \/ EndOfStream
  \/ OpenOutput
  \/ WriteNow
  \/ SkipWrite

SpecRerun == Init /\ [][NextRerun]_vars

\* one invocation on long feeds of malformed lines
ReadWarnLine == \E l \in WarnLines : ReadLine(l, MaxWarnLines)

NextWarn ==
  \/ StartOnce
  \/ FetchOK
  \/ FetchFail
  \/ ReadWarnLine
  \/ StreamError
  \/ EndOfStream
  \/ SkipWrite

SpecWarn == Init /\ [][NextWarn]_vars

-----------------------------------------------------------------------------
(* Properties *)

Range(seq) == {seq[i] : i \in 1..Len(seq)}

StrictlyAscending(seq) ==
  \A i \in 1..(Len(seq) - 1) : StrLess(seq[i], seq[i + 1])

\* '10.0.0.0/8'
P_ten ==
  <<49, 48, 46, 48, 46, 48, 46, 48, 47, 56>>
\* '100.0.0.0/8'
P_hundred ==
  <<49, 48, 48, 46, 48, 46, 48, 46, 48, 47, 56>>
\* '2.0.0.0/8'
P_two ==
  <<50, 46, 48, 46, 48, 46, 48, 47, 56>>
\* '# IPv4 CIDRs for ASNs 4134, 56040'
EXP_asns_primary ==
  <<35, 32, 73, 80, 118, 52, 32, 67, 73, 68, 82, 115, 32, 102, 111, 114, 32, 65, 83, 78, 115, 32, 52, 49, 51, 52, 44, 32, 53, 54, 48, 52, 48>>
\* '# IPv4 CIDRs for ASNs 4134, 4808, 4812, 4837, 9808, 17621, 17622, 17816, 24400, 24444, 24445, 24547, 38019, 56040, 56041, 56044, 56046, 56047, 56048'
EXP_asns_secondary ==
  <<35, 32, 73, 80, 118, 52, 32, 67, 73, 68, 82, 115, 32, 102, 111, 114, 32, 65, 83, 78, 115, 32, 52, 49, 51, 52, 44, 32, 52, 56, 48, 56, 44, 32, 52, 56, 49, 50, 44, 32, 52, 56, 51, 55, 44, 32, 57, 56, 48, 56, 44, 32, 49, 55, 54, 50, 49, 44, 32, 49, 55, 54, 50, 50, 44, 32, 49, 55, 56, 49, 54, 44, 32, 50, 52, 52, 48, 48, 44, 32, 50, 52, 52, 52, 52, 44, 32, 50, 52, 52, 52, 53, 44, 32, 50, 52, 53, 52, 55, 44, 32, 51, 56, 48, 49, 57, 44, 32, 53, 54, 48, 52, 48, 44, 32, 53, 54, 48, 52, 49, 44, 32, 53, 54, 48, 52, 52, 44, 32, 53, 54, 48, 52, 54, 44, 32, 53, 54, 48, 52, 55, 44, 32, 53, 54, 48, 52, 56>>
\* '# Data sourced from bgp.tools (https://bgp.tools/table.txt)'
EXP_source ==
  <<35, 32, 68, 97, 116, 97, 32, 115, 111, 117, 114, 99, 101, 100, 32, 102, 114, 111, 109, 32, 98, 103, 112, 46, 116, 111, 111, 108, 115, 32, 40, 104, 116, 116, 112, 115, 58, 47, 47, 98, 103, 112, 46, 116, 111, 111, 108, 115, 47, 116, 97, 98, 108, 101, 46, 116, 120, 116, 41>>
\* '# Last updated: 2026-10-31T00:00:00Z'
EXP_ts_a ==
  <<35, 32, 76, 97, 115, 116, 32, 117, 112, 100, 97, 116, 101, 100, 58, 32, 50, 48, 50, 54, 45, 49, 48, 45, 51, 49, 84, 48, 48, 58, 48, 48, 58, 48, 48, 90>>
\* '# Last updated: 2026-10-31T00:00:00.000001Z'
EXP_ts_b ==
  <<35, 32, 76, 97, 115, 116, 32, 117, 112, 100, 97, 116, 101, 100, 58, 32, 50, 48, 50, 54, 45, 49, 48, 45, 51, 49, 84, 48, 48, 58, 48, 48, 58, 48, 48, 46, 48, 48, 48, 48, 48, 49, 90>>

\* the line, once decoded and trimmed, is not a comment, has at least two
\* tokens, its second token is an integer of target_asns, and its first
\* token has a '.' and no ':'
Qualifies(l, target_asns) ==
  /\ DecodeOk(l)
  /\ LET t == Strip(l)
         parts == Split(t)
     IN  /\ t # <<>>
         /\ t[1] # 35
         /\ Len(parts) >= 2
         /\ IntParse(parts[2]).ok
         /\ IntIn(IntParse(parts[2]).val, target_asns)
         /\ Contains(parts[1], 46)
         /\ ~Contains(parts[1], 58)

\* what each line of Lines contributes to each set by that description:
\* its first token if it qualifies, nothing otherwise
ClaimedOf ==
  [t \in {TARGET_ASNS_PRIMARY, TARGET_ASNS_SECONDARY} |->
     [l \in Lines |-> IF Qualifies(l, t) THEN {Split(Strip(l))[1]} ELSE {}]]

ClaimedPrefixes(feed, target_asns) ==
  UNION {ClaimedOf[target_asns][l] : l \in feed}

\* C1: the prefixes accumulated by a pass, and the list it returns, are
\* exactly the first tokens of the consumed lines that qualify: decodable,
\* not a comment, at least two tokens, an integer second token that is in
\* the target set, a first token with '.' and without ':'.
C1_ResultIffQualifyingLine ==
  /\ pc = "iter" => filtered_cidrs = ClaimedPrefixes(seen, TargetOf(stage))
  /\ pc = "returned" => Range(result) = ClaimedPrefixes(seen, TargetOf(stage))

\* a pass over a matching line, an IPv6 line with a matching ASN and a line
\* of a foreign ASN returned the one IPv4 prefix
C1_Witness ==
  /\ pc = "returned"
  /\ stage = "primary"
  /\ seen = {L_ten, L_v6_mapped, L_foreign}
  /\ result = <<P_ten>>

\* C2: the returned list, and the body of every artifact written, is
\* strictly ascending in string order (so without duplicates); the three
\* prefixes 10.0.0.0/8, 100.0.0.0/8, 2.0.0.0/8 come in that order.
C2_StrictlyAscending ==
  /\ pc = "returned" =>
       /\ StrictlyAscending(result)
       /\ Range(result) = {P_ten, P_hundred, P_two} => result = <<P_ten, P_hundred, P_two>>
       /\ Range(result) = {P_ten, P_hundred} => result = <<P_ten, P_hundred>>
  /\ \A s \in Stages :
       wrote[s].done =>
         LET body == SubSeq(files[FileOf(s)].lines, 6, Len(files[FileOf(s)].lines))
         IN  StrictlyAscending(body)

\* the secondary pass met 10.0.0.0/8 on two lines and returned it once,
\* before 100.0.0.0/8
C2_Witness ==
  /\ pc = "returned"
  /\ stage = "secondary"
  /\ seen = {L_ten, L_ten_other, L_hundred}
  /\ result = <<P_ten, P_hundred>>

\* C3: a set whose pass returned no prefix has its artifact exactly as the
\* invocation found it, and write_output is invoked (successfully or not)
\* only for a set whose pass returned a non-empty list.
C3_EmptyLeavesArtifact ==
  /\ \A s \in Stages :
       /\ wrote[s].ret = "empty" =>
            ~wrote[s].done /\ files[FileOf(s)] = files0[FileOf(s)]
       /\ wrote[s].done => wrote[s].ret = "nonempty"
  /\ (pc = "writing" \/ failure.kind = "write") => wrote[stage].ret = "nonempty"

\* the primary pass returned nothing, its artifact existed before, and the
\* script went on
C3_Witness ==
  /\ wrote["primary"].ret = "empty"
  /\ files0[OUTPUT_FILENAME_PRIMARY] = OldFile
  /\ stage = "secondary"
  /\ pc = "returned"

\* C4: a failed fetch for the primary set does not end the process: the
\* secondary set is still processed.
C4_OtherSetStillProcessed ==
  (stage = "primary" /\ failure.kind \in {"fetch", "stream"}) => pc # "exited"

\* C5 as stated: an invocation in which both passes return nothing ends
\* with a non-zero exit status.
C5_AllEmptyExitsNonZero ==
  (/\ pc = "exited"
   /\ failure.kind = "none"
   /\ \A s \in Stages : wrote[s].ret = "empty") => exit_code # 0

\* C5 amended: an invocation in which both fetches succeed and both passes
\* return nothing ends with exit status 0, both artifacts as it found them.
C5_AllEmptyExitsZero ==
  (/\ pc = "exited"
   /\ \A s \in Stages : wrote[s].ret = "empty") =>
     exit_code = 0 /\ failure.kind = "none" /\ files = files0

\* both passes returned nothing and the script ran off its end
C5_Witness ==
  /\ pc = "exited"
  /\ wrote["primary"].ret = "empty"
  /\ wrote["secondary"].ret = "empty"
  /\ files0[OUTPUT_FILENAME_PRIMARY] = OldFile

\* the lines the loop body skips: one token, a non-integer ASN, a comment,
\* undecodable bytes, blanks, and the empty line
SkippedLines == {L_short, L_badasn, L_comment, L_undecodable, L_blank, L_empty}

\* C6: consuming a line never ends the pass (the loop goes on to the next
\* line), and consuming a skipped line leaves the accumulated set as it is.
C6_NoLineAborts ==
  [][\A l \in Lines :
       ReadLine(l, MaxLines) =>
         /\ pc' = "iter"
         /\ exit_code' = exit_code
         /\ l \in SkippedLines => filtered_cidrs' = filtered_cidrs]_vars

\* a pass consumed a prefix and then nothing but malformed lines, and
\* returned normally with that prefix
C6_Witness ==
  /\ pc = "returned"
  /\ seen = {L_ten, L_undecodable, L_badasn}
  /\ result = <<P_ten>>

\* C7: the warnings of one pass never exceed the cap.
C7_WarningsCapped == warnings <= WARN_LINE_LIMIT

\* all lines of an artifact but the timestamp line agree
SameButTimestamp(a, b) ==
  /\ Len(a) = Len(b)
  /\ \A i \in (1..Len(a)) \ {3} : a[i] = b[i]

\* C8: when two successive invocations consume, for a set, feeds with the
\* same matching lines (in any order, any number of times, among any other
\* lines) and both write its artifact, the two artifacts agree in every
\* line but the timestamp line, whatever the artifact held before.
C8_SameFeedSameArtifact ==
  \A s \in Stages :
    (wrote[s].done /\ prev[s].done /\ wrote[s].feed = prev[s].feed) =>
      /\ SameButTimestamp(wrote[s].lines, prev[s].lines)
      /\ files[FileOf(s)].lines = wrote[s].lines

\* the second invocation wrote the primary artifact from the same two
\* matching lines as the first, under another timestamp
C8_Witness ==
  /\ run = 2
  /\ wrote["primary"].done
  /\ prev["primary"].done
  /\ wrote["primary"].feed = {L_ten, L_hundred}
  /\ prev["primary"].feed = {L_ten, L_hundred}
  /\ wrote["primary"].lines[3] # prev["primary"].lines[3]

\* C9: a successful write_output leaves in the set's artifact the five
\* header lines (ASNs ascending, source, timestamp with Z, disclaimer,
\* separator) and then the returned prefixes in order, nothing else, and
\* leaves the other artifact as it is.
C9_ArtifactIsHeaderPlusPrefixes ==
  [][(pc = "writing" /\ wrote'[stage].done /\ ~wrote[stage].done) =>
       LET f == files'[FileOf(stage)] IN
       /\ f.exists
       /\ f.lines =
            << IF stage = "primary" THEN EXP_asns_primary ELSE EXP_asns_secondary,
               EXP_source,
               f.lines[3],
               HDR_WARNING,
               HDR_SEPARATOR >> \o result
       /\ f.lines[3] \in {EXP_ts_a, EXP_ts_b}
       /\ f.tail = <<>>
       /\ \A n \in FileNames \ {FileOf(stage)} : files'[n] = files[n]]_vars

\* the primary artifact existed, and was rewritten with one prefix
C9_Witness ==
  /\ wrote["primary"].done
  /\ files0[OUTPUT_FILENAME_PRIMARY] = OldFile
  /\ files[OUTPUT_FILENAME_PRIMARY].lines =
       <<EXP_asns_primary, EXP_source, EXP_ts_b, HDR_WARNING, HDR_SEPARATOR, P_ten>>

\* C10: a transport failure, at the request or in mid-stream, ends the
\* process with exit status 1 and the artifact of the set being processed as
\* the invocation found it; an artifact written earlier in the invocation
\* keeps the lines written.
C10_NoPartialResults ==
  failure.kind \in {"fetch", "stream"} =>
    /\ pc = "exited"
    /\ exit_code = 1
    /\ ~wrote[stage].done
    /\ files[FileOf(stage)] = files0[FileOf(stage)]
    /\ \A s \in Stages :
         wrote[s].done =>
           files[FileOf(s)] = [exists |-> TRUE, lines |-> wrote[s].lines, tail |-> <<>>]

\* the secondary stream failed after a prefix was accumulated, the primary
\* artifact having been written
C10_Witness ==
  /\ failure.kind = "stream"
  /\ failure.pending # {}
  /\ stage = "secondary"
  /\ wrote["primary"].done
  /\ files[OUTPUT_FILENAME_PRIMARY] # files0[OUTPUT_FILENAME_PRIMARY]

====
